---- MODULE Spec2Model ----
(***************************************************************************)
(* Model of Helper.Get (helper/command.go): the credential-retrieval       *)
(* orchestrator of docker-credential-vault-login, together with the two    *)
(* tasks it starts (the auth handler = Login Task, the sink server =       *)
(* Sink-Write Task) and the deadline of the shared context.                *)
(***************************************************************************)
EXTENDS Integers, Sequences, FiniteSets, TLC

\* ----------------------------------------------------------------- bounds
MaxSinks == 3

\* ------------------------------------------------------------ value sets
NoToken == "none"
CachedTokenIds == {"t1", "t2"}
FreshToken == "fresh"

SinkTypes == {"file", "s3"}
KnownMethods == {"alicloud", "aws", "azure", "gcp", "jwt", "kubernetes", "approle"}
\* method type tags the configurations of the model use ("ldap" is unknown)
MethodTypes == {"aws", "approle", "ldap"}
SecretKinds == {"missing", "nonstring", "string"}

NilErr == "nil"
ErrCredentialsNotFound == "credentials not found in native keychain"

SeqUpTo(S, n) == UNION {[1..k -> S] : k \in 0..n}

SinkEntries == [Type : SinkTypes, cached : CachedTokenIds \cup {NoToken}]

\* the configuration file as config.LoadConfig hands it to Get
Configs ==
  [loadErr : {TRUE}, isNil : {FALSE}, autoAuth : {FALSE}, secret : {"missing"},
   Sinks : {<< >>}, MethodType : {"aws"}]
  \cup
  [loadErr : {FALSE}, isNil : {TRUE}, autoAuth : {FALSE}, secret : {"missing"},
   Sinks : {<< >>}, MethodType : {"aws"}]
  \cup
  [loadErr : {FALSE}, isNil : {FALSE}, autoAuth : {FALSE}, secret : {"missing"},
   Sinks : {<< >>}, MethodType : {"aws"}]
  \cup
  [loadErr : {FALSE}, isNil : {FALSE}, autoAuth : {TRUE}, secret : SecretKinds,
   Sinks : SeqUpTo(SinkEntries, MaxSinks), MethodType : MethodTypes]

NoConfig ==
  [loadErr |-> FALSE, isNil |-> TRUE, autoAuth |-> FALSE, secret |-> "missing",
   Sinks |-> << >>, MethodType |-> "aws"]

VARIABLES
  pc,            \* position of the orchestrator inside Get
  logger,        \* h.logger: "nil" | "set"
  client,        \* h.client: "nil" | "set"
  clientToken,   \* active credential of h.client
  config,        \* loaded configuration
  sinkStore,     \* what each configured sink durably holds
  cachedTokens,  \* result of cache.GetCachedTokens
  readErr,       \* error result of cache.GetCachedTokens
  idx,           \* loop index of the two range loops
  renewLog,      \* renewals performed, in order
  exchLog,       \* secret exchanges performed, in order
  sinks,         \* result of buildSinks
  ctx,           \* "none" | "live" | "done"
  deadlineElapsed,
  OutputCh,      \* ah.OutputCh, single slot
  token,         \* local variable token of Get
  ahState,       \* Login Task
  ssState,       \* Sink-Write Task
  ssToken,       \* token the Sink-Write Task received
  ssWritten,     \* number of sinks written so far
  ssOutcome,     \* how the Sink-Write Task ended
  ahSeen,        \* orchestrator has received from ah.DoneCh
  ssSeen,        \* orchestrator has received from ss.DoneCh
  result,        \* what Get returned
  retLine,       \* source line of the return statement taken (0: none yet)
  hist,          \* history of the call (observations only)
  tk             \* a cached token record, the clock, and what its predicates returned

vars == <<pc, logger, client, clientToken, config, sinkStore, cachedTokens,
          readErr, idx, renewLog, exchLog, sinks, ctx, deadlineElapsed,
          OutputCh, token, ahState, ssState, ssToken, ssWritten, ssOutcome,
          ahSeen, ssSeen, result, retLine, hist, tk>>

\* the variables of the Helper and of a call of Get
helperVars == <<pc, logger, client, clientToken, config, sinkStore,
                cachedTokens, readErr, idx, renewLog, exchLog, sinks, ctx,
                deadlineElapsed, OutputCh, token, ahState, ssState, ssToken,
                ssWritten, ssOutcome, ahSeen, ssSeen, result, retLine, hist>>

NoResult == [username |-> "", password |-> "", err |-> "pending"]

InitHist ==
  [startCount |-> 0, loginAttempts |-> 0, sinkWrites |-> 0,
   loginWait |-> "none", handed |-> FALSE, persistWait |-> "none",
   dlLogin |-> FALSE, dlPersisted |-> FALSE]

\* no cached token record is being evaluated
IdleClock ==
  [token |-> [Token |-> NoToken, Expiration |-> 0, Renewable |-> FALSE],
   now |-> 0, expCalled |-> FALSE, expRet |-> FALSE,
   eligCalled |-> FALSE, eligRet |-> FALSE]

HelperInit ==
  /\ pc = "start"
  /\ logger \in {"nil", "set"}
  /\ client \in {"nil", "set"}
  /\ clientToken = NoToken
  /\ config = NoConfig
  /\ sinkStore = << >>
  /\ cachedTokens = << >>
  /\ readErr = FALSE
  /\ idx = 1
  /\ renewLog = << >>
  /\ exchLog = << >>
  /\ sinks = << >>
  /\ ctx = "none"
  /\ deadlineElapsed = FALSE
  /\ OutputCh = << >>
  /\ token = ""
  /\ ahState = "notstarted"
  /\ ssState = "notstarted"
  /\ ssToken = NoToken
  /\ ssWritten = 0
  /\ ssOutcome = "none"
  /\ ahSeen = FALSE
  /\ ssSeen = FALSE
  /\ result = NoResult
  /\ retLine = 0
  /\ hist = InitHist

Init ==
  /\ HelperInit
  /\ tk = IdleClock

\* ------------------------------------------------------------ results
NotFound == [username |-> "", password |-> "", err |-> ErrCredentialsNotFound]

\* vault.GetCredentials reads the secret with the client's active token
GetCredentials(tok) == [Username |-> <<"user", tok>>, Password |-> <<"pass", tok>>]

Success(creds) == [username |-> creds.Username, password |-> creds.Password, err |-> NilErr]

Return(r, line) ==
  /\ pc' = "done"
  /\ result' = r
  /\ retLine' = line

NoReturn ==
  /\ result' = result
  /\ retLine' = retLine

\* --------------------------------------------- Get, lines 72-89: logger
GetLogger ==
  /\ pc = "start"
  /\ IF logger = "nil"
       THEN \E logFileOK \in BOOLEAN :
              IF logFileOK
                THEN /\ logger' = "set"
                     /\ pc' = "loadconfig"
                ELSE \* h.logger.Error(...) on the nil logger
                     /\ logger' = logger
                     /\ pc' = "panicked"
       ELSE /\ logger' = logger
            /\ pc' = "loadconfig"
  /\ UNCHANGED <<client, clientToken, config, sinkStore, cachedTokens, readErr,
                 idx, renewLog, exchLog, sinks, ctx, deadlineElapsed, OutputCh,
                 token, ahState, ssState, ssToken, ssWritten, ssOutcome,
                 ahSeen, ssSeen, result, retLine, hist, tk>>

\* -------------------------------------- Get, lines 91-125: configuration
\* the line of the return statement the configuration checks take (0: none)
ConfigError(c) ==
  IF c.loadErr THEN 99
  ELSE IF c.isNil THEN 105
  ELSE IF ~c.autoAuth THEN 110
  ELSE IF c.secret = "missing" THEN 117
  ELSE IF c.secret = "nonstring" THEN 124
  ELSE 0

LoadConfig ==
  /\ pc = "loadconfig"
  /\ \E c \in Configs :
       /\ config' = c
       /\ sinkStore' = [i \in 1..Len(c.Sinks) |-> c.Sinks[i].cached]
       /\ IF ConfigError(c) # 0
            THEN Return(NotFound, ConfigError(c))
            ELSE /\ pc' = "client"
                 /\ NoReturn
  /\ UNCHANGED <<logger, client, clientToken, cachedTokens, readErr,
                 idx, renewLog, exchLog, sinks, ctx, deadlineElapsed, OutputCh,
                 token, ahState, ssState, ssToken, ssWritten, ssOutcome,
                 ahSeen, ssSeen, hist, tk>>

\* ------------------------------------------- Get, lines 127-135: client
NewClient ==
  /\ pc = "client"
  /\ IF client = "nil"
       THEN \E ok \in BOOLEAN :
              IF ok
                THEN /\ client' = "set"
                     /\ pc' = "cache"
                     /\ NoReturn
                ELSE /\ client' = client
                     /\ Return(NotFound, 131)
       ELSE /\ client' = client
            /\ pc' = "cache"
            /\ NoReturn
  /\ UNCHANGED <<logger, clientToken, config, sinkStore, cachedTokens, readErr,
                 idx, renewLog, exchLog, sinks, ctx, deadlineElapsed, OutputCh,
                 token, ahState, ssState, ssToken, ssWritten, ssOutcome,
                 ahSeen, ssSeen, hist, tk>>

\* ------------------------------- Get, lines 137-141: read cached tokens
RECURSIVE ReadSinks(_, _, _)
ReadSinks(store, unreadable, i) ==
  IF i > Len(store) THEN << >>
  ELSE IF i \in unreadable \/ store[i] = NoToken
         THEN ReadSinks(store, unreadable, i + 1)
         ELSE <<store[i]>> \o ReadSinks(store, unreadable, i + 1)

\* variant: an error of the read ends Get with NotFound
GetCachedTokens_Fatal ==
  /\ pc = "cache"
  /\ \E unreadable \in SUBSET (1..Len(sinkStore)) :
       LET toks == ReadSinks(sinkStore, unreadable, 1) IN
         /\ cachedTokens' = toks
         /\ readErr' = (unreadable # {})
         /\ IF unreadable # {}
              THEN Return(NotFound, 140)
              ELSE /\ pc' = IF Len(toks) = 0 THEN "clear" ELSE "renew"
                   /\ NoReturn
  /\ idx' = 1
  /\ UNCHANGED <<logger, client, clientToken, config, sinkStore,
                 renewLog, exchLog, sinks, ctx, deadlineElapsed, OutputCh,
                 token, ahState, ssState, ssToken, ssWritten, ssOutcome,
                 ahSeen, ssSeen, hist, tk>>

GetCachedTokens ==
  /\ pc = "cache"
  /\ \E unreadable \in SUBSET (1..Len(sinkStore)) :
       LET toks == ReadSinks(sinkStore, unreadable, 1) IN
         /\ cachedTokens' = toks
         /\ readErr' = (unreadable # {})
         /\ pc' = IF Len(toks) = 0 THEN "clear" ELSE "renew"
  /\ idx' = 1
  /\ UNCHANGED <<logger, client, clientToken, config, sinkStore,
                 renewLog, exchLog, sinks, ctx, deadlineElapsed, OutputCh,
                 token, ahState, ssState, ssToken, ssWritten, ssOutcome,
                 ahSeen, ssSeen, result, retLine, hist, tk>>

\* ------------------------------------ Get, lines 143-148: renewal loop
RenewTokenAsSelf ==
  /\ pc = "renew"
  /\ idx <= Len(cachedTokens)
  /\ \E ok \in BOOLEAN :
       renewLog' = Append(renewLog, [token |-> cachedTokens[idx], ok |-> ok])
  /\ IF idx < Len(cachedTokens)
       THEN /\ idx' = idx + 1
            /\ pc' = pc
       ELSE /\ idx' = 1
            /\ pc' = "use"
  /\ UNCHANGED <<logger, client, clientToken, config, sinkStore, cachedTokens,
                 readErr, exchLog, sinks, ctx, deadlineElapsed, OutputCh,
                 token, ahState, ssState, ssToken, ssWritten, ssOutcome,
                 ahSeen, ssSeen, result, retLine, hist, tk>>

\* variant: the loop does not return at the first successful exchange but
\* goes on and returns the credentials of the last successful one
UseCachedToken_NoShortCircuit ==
  /\ pc = "use"
  /\ idx <= Len(cachedTokens)
  /\ clientToken' = cachedTokens[idx]
  /\ \E ok \in BOOLEAN :
       /\ exchLog' = Append(exchLog, [token |-> clientToken', pos |-> idx,
                                      ok |-> ok, phase |-> "cache"])
       /\ IF idx < Len(cachedTokens)
            THEN /\ idx' = idx + 1
                 /\ pc' = pc
                 /\ NoReturn
            ELSE /\ idx' = idx
                 /\ IF ok
                      THEN Return(Success(GetCredentials(clientToken')), 160)
                      ELSE /\ pc' = "clear"
                           /\ NoReturn
  /\ UNCHANGED <<logger, client, config, sinkStore, cachedTokens,
                 readErr, renewLog, sinks, ctx, deadlineElapsed, OutputCh,
                 token, ahState, ssState, ssToken, ssWritten, ssOutcome,
                 ahSeen, ssSeen, hist, tk>>

\* variant: a token whose renewal failed is not tried for the exchange
UseCachedToken_SkipUnrenewed ==
  /\ pc = "use"
  /\ idx <= Len(cachedTokens)
  /\ IF renewLog[idx].ok
       THEN /\ clientToken' = cachedTokens[idx]
            /\ \E ok \in BOOLEAN :
                 /\ exchLog' = Append(exchLog, [token |-> clientToken', pos |-> idx,
                                                ok |-> ok, phase |-> "cache"])
                 /\ IF ok
                      THEN /\ Return(Success(GetCredentials(clientToken')), 160)
                           /\ idx' = idx
                      ELSE /\ NoReturn
                           /\ IF idx < Len(cachedTokens)
                                THEN /\ idx' = idx + 1
                                     /\ pc' = pc
                                ELSE /\ idx' = idx
                                     /\ pc' = "clear"
       ELSE /\ clientToken' = clientToken
            /\ exchLog' = exchLog
            /\ NoReturn
            /\ IF idx < Len(cachedTokens)
                 THEN /\ idx' = idx + 1
                      /\ pc' = pc
                 ELSE /\ idx' = idx
                      /\ pc' = "clear"
  /\ UNCHANGED <<logger, client, config, sinkStore, cachedTokens,
                 readErr, renewLog, sinks, ctx, deadlineElapsed, OutputCh,
                 token, ahState, ssState, ssToken, ssWritten, ssOutcome,
                 ahSeen, ssSeen, hist, tk>>

\* variant: the client's token is cleared again before a successful return
UseCachedToken_ClearOnSuccess ==
  /\ pc = "use"
  /\ idx <= Len(cachedTokens)
  /\ \E ok \in BOOLEAN :
       /\ exchLog' = Append(exchLog, [token |-> cachedTokens[idx], pos |-> idx,
                                      ok |-> ok, phase |-> "cache"])
       /\ IF ok
            THEN /\ Return(Success(GetCredentials(cachedTokens[idx])), 160)
                 /\ clientToken' = NoToken
                 /\ idx' = idx
            ELSE /\ NoReturn
                 /\ clientToken' = cachedTokens[idx]
                 /\ IF idx < Len(cachedTokens)
                      THEN /\ idx' = idx + 1
                           /\ pc' = pc
                      ELSE /\ idx' = idx
                           /\ pc' = "clear"
  /\ UNCHANGED <<logger, client, config, sinkStore, cachedTokens,
                 readErr, renewLog, sinks, ctx, deadlineElapsed, OutputCh,
                 token, ahState, ssState, ssToken, ssWritten, ssOutcome,
                 ahSeen, ssSeen, hist, tk>>

\* ------------------------------------ Get, lines 150-161: exchange loop
UseCachedToken ==
  /\ pc = "use"
  /\ idx <= Len(cachedTokens)
  /\ clientToken' = cachedTokens[idx]
  /\ \E ok \in BOOLEAN :
       /\ exchLog' = Append(exchLog, [token |-> clientToken', pos |-> idx,
                                      ok |-> ok, phase |-> "cache"])
       /\ IF ok
            THEN /\ Return(Success(GetCredentials(clientToken')), 160)
                 /\ idx' = idx
            ELSE /\ NoReturn
                 /\ IF idx < Len(cachedTokens)
                      THEN /\ idx' = idx + 1
                           /\ pc' = pc
                      ELSE /\ idx' = idx
                           /\ pc' = "clear"
  /\ UNCHANGED <<logger, client, config, sinkStore, cachedTokens,
                 readErr, renewLog, sinks, ctx, deadlineElapsed, OutputCh,
                 token, ahState, ssState, ssToken, ssWritten, ssOutcome,
                 ahSeen, ssSeen, hist, tk>>

\* variant: after the last cached token failed, Get gives up
ClearToken_GiveUp ==
  /\ pc = "clear"
  /\ clientToken' = NoToken
  /\ Return(NotFound, 164)
  /\ UNCHANGED <<logger, client, config, sinkStore, cachedTokens, readErr, idx,
                 renewLog, exchLog, sinks, ctx, deadlineElapsed, OutputCh,
                 token, ahState, ssState, ssToken, ssWritten, ssOutcome,
                 ahSeen, ssSeen, hist, tk>>

\* variant: the token of the last failed exchange stays on the client
ClearToken_Skip ==
  /\ pc = "clear"
  /\ clientToken' = clientToken
  /\ pc' = "buildsinks"
  /\ UNCHANGED <<logger, client, config, sinkStore, cachedTokens, readErr, idx,
                 renewLog, exchLog, sinks, ctx, deadlineElapsed, OutputCh,
                 token, ahState, ssState, ssToken, ssWritten, ssOutcome,
                 ahSeen, ssSeen, result, retLine, hist, tk>>

\* ---------------------------------------- Get, line 164: ClearToken
ClearToken ==
  /\ pc = "clear"
  /\ clientToken' = NoToken
  /\ pc' = "buildsinks"
  /\ UNCHANGED <<logger, client, config, sinkStore, cachedTokens, readErr, idx,
                 renewLog, exchLog, sinks, ctx, deadlineElapsed, OutputCh,
                 token, ahState, ssState, ssToken, ssWritten, ssOutcome,
                 ahSeen, ssSeen, result, retLine, hist, tk>>

\* ------------------------------------------- buildSinks, lines 235-260
\* ok[i] is the outcome of file.NewFileSink for the i-th configured sink;
\* a built sink is named by the position of the sink it writes
RECURSIVE buildSinks(_, _, _, _)
buildSinks(ss, ok, i, acc) ==
  IF i > Len(ss) THEN [sinks |-> acc, err |-> FALSE]
  ELSE IF ss[i].Type = "file"
         THEN IF ~ok[i]
                THEN [sinks |-> << >>, err |-> TRUE]
                ELSE buildSinks(ss, ok, i + 1, Append(acc, i))
         ELSE [sinks |-> << >>, err |-> TRUE]

\* Get, lines 166-170
BuildSinks ==
  /\ pc = "buildsinks"
  /\ \E ok \in [1..Len(config.Sinks) -> BOOLEAN] :
       LET r == buildSinks(config.Sinks, ok, 1, << >>) IN
         IF r.err
           THEN /\ Return(NotFound, 169)
                /\ sinks' = sinks
           ELSE /\ sinks' = r.sinks
                /\ pc' = "buildmethod"
                /\ NoReturn
  /\ UNCHANGED <<logger, client, clientToken, config, sinkStore, cachedTokens,
                 readErr, idx, renewLog, exchLog, ctx, deadlineElapsed, OutputCh,
                 token, ahState, ssState, ssToken, ssWritten, ssOutcome,
                 ahSeen, ssSeen, hist, tk>>

\* variant: the switch has no default case
buildMethod_NoDefault(type, ok) == ~ok

\* ------------------------------------------ buildMethod, lines 262-295
\* ok is the outcome of the method's constructor; TRUE = an error is returned
buildMethod(type, ok) ==
  IF type \in KnownMethods THEN ~ok ELSE TRUE

\* Get, lines 172-176
BuildMethod ==
  /\ pc = "buildmethod"
  /\ \E ok \in BOOLEAN :
       IF buildMethod(config.MethodType, ok)
         THEN Return(NotFound, 175)
         ELSE /\ pc' = "starttasks"
              /\ NoReturn
  /\ UNCHANGED <<logger, client, clientToken, config, sinkStore, cachedTokens,
                 readErr, idx, renewLog, exchLog, sinks, ctx, deadlineElapsed,
                 OutputCh, token, ahState, ssState, ssToken, ssWritten,
                 ssOutcome, ahSeen, ssSeen, hist, tk>>

\* variant: only the Login Task is started
StartTasks_LoginOnly ==
  /\ pc = "starttasks"
  /\ ctx' = "live"
  /\ ahState' = "running"
  /\ ssState' = ssState
  /\ hist' = [hist EXCEPT !.startCount = @ + 1]
  /\ pc' = "waitlogin"
  /\ UNCHANGED <<logger, client, clientToken, config, sinkStore, cachedTokens,
                 readErr, idx, renewLog, exchLog, sinks, deadlineElapsed,
                 OutputCh, token, ssToken, ssWritten, ssOutcome,
                 ahSeen, ssSeen, result, retLine, tk>>

\* ---------------- Get, lines 178-195: context, channel, go ah.Run, go ss.Run
StartTasks ==
  /\ pc = "starttasks"
  /\ ctx' = "live"
  /\ ahState' = "running"
  /\ ssState' = "waiting"
  /\ hist' = [hist EXCEPT !.startCount = @ + 1]
  /\ pc' = "waitlogin"
  /\ UNCHANGED <<logger, client, clientToken, config, sinkStore, cachedTokens,
                 readErr, idx, renewLog, exchLog, sinks, deadlineElapsed,
                 OutputCh, token, ssToken, ssWritten, ssOutcome,
                 ahSeen, ssSeen, result, retLine, tk>>

\* ------------------------------- Get, lines 198-207: first select
\* case <-ctx.Done()
LoginTimeout ==
  /\ pc = "waitlogin"
  /\ ctx = "done"
  /\ pc' = "teardown_ah"
  /\ hist' = [hist EXCEPT !.loginWait = "timeout"]
  /\ UNCHANGED <<logger, client, clientToken, config, sinkStore, cachedTokens,
                 readErr, idx, renewLog, exchLog, sinks, ctx, deadlineElapsed,
                 OutputCh, token, ahState, ssState, ssToken, ssWritten,
                 ssOutcome, ahSeen, ssSeen, result, retLine, tk>>

\* case token = <-ah.OutputCh
LoginToken ==
  /\ pc = "waitlogin"
  /\ Len(OutputCh) > 0
  /\ token' = Head(OutputCh)
  /\ OutputCh' = Tail(OutputCh)
  /\ pc' = "handoff"
  /\ hist' = [hist EXCEPT !.loginWait = "token"]
  /\ UNCHANGED <<logger, client, clientToken, config, sinkStore, cachedTokens,
                 readErr, idx, renewLog, exchLog, sinks, ctx, deadlineElapsed,
                 ahState, ssState, ssToken, ssWritten,
                 ssOutcome, ahSeen, ssSeen, result, retLine, tk>>

\* ------------------- Get, lines 201-203 and 214-216: teardown after timeout
\* <-ah.DoneCh
TeardownAuth ==
  /\ pc = "teardown_ah"
  /\ ahState = "exited"
  /\ ahSeen' = TRUE
  /\ pc' = "teardown_ss"
  /\ UNCHANGED <<logger, client, clientToken, config, sinkStore, cachedTokens,
                 readErr, idx, renewLog, exchLog, sinks, ctx, deadlineElapsed,
                 OutputCh, token, ahState, ssState, ssToken, ssWritten,
                 ssOutcome, ssSeen, result, retLine, hist, tk>>

\* variant: the timeout is returned to the caller as its own error
TeardownSink_RawErr ==
  /\ pc = "teardown_ss"
  /\ ssState = "exited"
  /\ ssSeen' = TRUE
  /\ Return([username |-> "", password |-> "", err |-> "context deadline exceeded"],
            IF hist.loginWait = "timeout" THEN 203 ELSE 216)
  /\ UNCHANGED <<logger, client, clientToken, config, sinkStore, cachedTokens,
                 readErr, idx, renewLog, exchLog, sinks, ctx, deadlineElapsed,
                 OutputCh, token, ahState, ssState, ssToken, ssWritten,
                 ssOutcome, ahSeen, hist, tk>>

\* <-ss.DoneCh; return NotFound
TeardownSink ==
  /\ pc = "teardown_ss"
  /\ ssState = "exited"
  /\ ssSeen' = TRUE
  /\ Return(NotFound, IF hist.loginWait = "timeout" THEN 203 ELSE 216)
  /\ UNCHANGED <<logger, client, clientToken, config, sinkStore, cachedTokens,
                 readErr, idx, renewLog, exchLog, sinks, ctx, deadlineElapsed,
                 OutputCh, token, ahState, ssState, ssToken, ssWritten,
                 ssOutcome, ahSeen, hist, tk>>

\* ------------- Get, line 209: newTokenCh <- token (unbuffered: rendezvous
\* with the receive of the Sink-Write Task)
Handoff ==
  /\ pc = "handoff"
  /\ ssState = "waiting"
  /\ ssToken' = token
  /\ ssState' = "writing"
  /\ pc' = "waitpersist"
  /\ hist' = [hist EXCEPT !.handed = TRUE]
  /\ UNCHANGED <<logger, client, clientToken, config, sinkStore, cachedTokens,
                 readErr, idx, renewLog, exchLog, sinks, ctx, deadlineElapsed,
                 OutputCh, token, ahState, ssWritten,
                 ssOutcome, ahSeen, ssSeen, result, retLine, tk>>

\* ------------------------------- Get, lines 211-219: second select
\* case <-ctx.Done()
PersistTimeout ==
  /\ pc = "waitpersist"
  /\ ctx = "done"
  /\ pc' = "teardown_ah"
  /\ hist' = [hist EXCEPT !.persistWait = "timeout"]
  /\ UNCHANGED <<logger, client, clientToken, config, sinkStore, cachedTokens,
                 readErr, idx, renewLog, exchLog, sinks, ctx, deadlineElapsed,
                 OutputCh, token, ahState, ssState, ssToken, ssWritten,
                 ssOutcome, ahSeen, ssSeen, result, retLine, tk>>

\* variant: after ss.DoneCh the token is used without waiting for ah.DoneCh
PersistDone_SkipWait ==
  /\ pc = "waitpersist"
  /\ ssState = "exited"
  /\ ssSeen' = TRUE
  /\ pc' = "final"
  /\ hist' = [hist EXCEPT !.persistWait = "done"]
  /\ UNCHANGED <<logger, client, clientToken, config, sinkStore, cachedTokens,
                 readErr, idx, renewLog, exchLog, sinks, ctx, deadlineElapsed,
                 OutputCh, token, ahState, ssState, ssToken, ssWritten,
                 ssOutcome, ahSeen, result, retLine, tk>>

\* case <-ss.DoneCh
PersistDone ==
  /\ pc = "waitpersist"
  /\ ssState = "exited"
  /\ ssSeen' = TRUE
  /\ pc' = "cancel"
  /\ hist' = [hist EXCEPT !.persistWait = "done"]
  /\ UNCHANGED <<logger, client, clientToken, config, sinkStore, cachedTokens,
                 readErr, idx, renewLog, exchLog, sinks, ctx, deadlineElapsed,
                 OutputCh, token, ahState, ssState, ssToken, ssWritten,
                 ssOutcome, ahSeen, result, retLine, tk>>

\* ------------------------------------------- Get, line 221: cancel()
Cancel ==
  /\ pc = "cancel"
  /\ ctx' = "done"
  /\ pc' = "waitauth"
  /\ UNCHANGED <<logger, client, clientToken, config, sinkStore, cachedTokens,
                 readErr, idx, renewLog, exchLog, sinks, deadlineElapsed,
                 OutputCh, token, ahState, ssState, ssToken, ssWritten,
                 ssOutcome, ahSeen, ssSeen, result, retLine, hist, tk>>

\* variant: the orchestrator does not wait for the Login Task after cancel()
WaitAuth_NoWait ==
  /\ pc = "waitauth"
  /\ ahSeen' = (ahState = "exited")
  /\ pc' = "final"
  /\ UNCHANGED <<logger, client, clientToken, config, sinkStore, cachedTokens,
                 readErr, idx, renewLog, exchLog, sinks, ctx, deadlineElapsed,
                 OutputCh, token, ahState, ssState, ssToken, ssWritten,
                 ssOutcome, ssSeen, result, retLine, hist, tk>>

\* ------------------------------------------- Get, line 222: <-ah.DoneCh
WaitAuth ==
  /\ pc = "waitauth"
  /\ ahState = "exited"
  /\ ahSeen' = TRUE
  /\ pc' = "final"
  /\ UNCHANGED <<logger, client, clientToken, config, sinkStore, cachedTokens,
                 readErr, idx, renewLog, exchLog, sinks, ctx, deadlineElapsed,
                 OutputCh, token, ahState, ssState, ssToken, ssWritten,
                 ssOutcome, ssSeen, result, retLine, hist, tk>>

\* variant: the fresh token is not set on the client before the exchange
FinalExchange_NoSetToken ==
  /\ pc = "final"
  /\ clientToken' = clientToken
  /\ \E ok \in BOOLEAN :
       /\ exchLog' = Append(exchLog, [token |-> clientToken', pos |-> 0,
                                      ok |-> ok, phase |-> "fresh"])
       /\ IF ok
            THEN Return(Success(GetCredentials(clientToken')), 232)
            ELSE Return(NotFound, 230)
  /\ UNCHANGED <<logger, client, config, sinkStore, cachedTokens,
                 readErr, idx, renewLog, sinks, ctx, deadlineElapsed, OutputCh,
                 token, ahState, ssState, ssToken, ssWritten, ssOutcome,
                 ahSeen, ssSeen, hist, tk>>

\* ------------- Get, lines 224-232: SetToken and the final secret exchange
FinalExchange ==
  /\ pc = "final"
  /\ clientToken' = token
  /\ \E ok \in BOOLEAN :
       /\ exchLog' = Append(exchLog, [token |-> clientToken', pos |-> 0,
                                      ok |-> ok, phase |-> "fresh"])
       /\ IF ok
            THEN Return(Success(GetCredentials(clientToken')), 232)
            ELSE Return(NotFound, 230)
  /\ UNCHANGED <<logger, client, config, sinkStore, cachedTokens,
                 readErr, idx, renewLog, sinks, ctx, deadlineElapsed, OutputCh,
                 token, ahState, ssState, ssToken, ssWritten, ssOutcome,
                 ahSeen, ssSeen, hist, tk>>

\* ------------------------------------------------------------ Login Task
\* (auth handler started at line 194). It produces the token on OutputCh
\* and closes DoneCh when it exits: normally, on error, or on cancellation.
AuthSucceed ==
  /\ ahState = "running"
  /\ OutputCh' = Append(OutputCh, FreshToken)
  /\ ahState' = "holding"
  /\ hist' = [hist EXCEPT !.loginAttempts = @ + 1]
  /\ UNCHANGED <<pc, logger, client, clientToken, config, sinkStore,
                 cachedTokens, readErr, idx, renewLog, exchLog, sinks, ctx,
                 deadlineElapsed, token, ssState, ssToken, ssWritten,
                 ssOutcome, ahSeen, ssSeen, result, retLine, tk>>

AuthFail ==
  /\ ahState = "running"
  /\ ahState' = "exited"
  /\ UNCHANGED <<pc, logger, client, clientToken, config, sinkStore,
                 cachedTokens, readErr, idx, renewLog, exchLog, sinks, ctx,
                 deadlineElapsed, OutputCh, token, ssState, ssToken, ssWritten,
                 ssOutcome, ahSeen, ssSeen, result, retLine, hist, tk>>

AuthExit ==
  /\ ahState = "holding"
  /\ ahState' = "exited"
  /\ UNCHANGED <<pc, logger, client, clientToken, config, sinkStore,
                 cachedTokens, readErr, idx, renewLog, exchLog, sinks, ctx,
                 deadlineElapsed, OutputCh, token, ssState, ssToken, ssWritten,
                 ssOutcome, ahSeen, ssSeen, result, retLine, hist, tk>>

AuthCancelled ==
  /\ ahState \in {"running", "holding"}
  /\ ctx = "done"
  /\ ahState' = "exited"
  /\ UNCHANGED <<pc, logger, client, clientToken, config, sinkStore,
                 cachedTokens, readErr, idx, renewLog, exchLog, sinks, ctx,
                 deadlineElapsed, OutputCh, token, ssState, ssToken, ssWritten,
                 ssOutcome, ahSeen, ssSeen, result, retLine, hist, tk>>

\* -------------------------------------------------------- Sink-Write Task
\* (sink server started at line 195). It receives one token (Handoff),
\* writes it to every built sink and closes DoneCh when it exits.
SinkWrite ==
  /\ ssState = "writing"
  /\ ssWritten < Len(sinks)
  /\ sinkStore' = [sinkStore EXCEPT ![sinks[ssWritten + 1]] = ssToken]
  /\ ssWritten' = ssWritten + 1
  /\ hist' = [hist EXCEPT !.sinkWrites = @ + 1]
  /\ UNCHANGED <<pc, logger, client, clientToken, config,
                 cachedTokens, readErr, idx, renewLog, exchLog, sinks, ctx,
                 deadlineElapsed, OutputCh, token, ahState, ssState, ssToken,
                 ssOutcome, ahSeen, ssSeen, result, retLine, tk>>

SinkFinish ==
  /\ ssState = "writing"
  /\ ssWritten = Len(sinks)
  /\ ssState' = "exited"
  /\ ssOutcome' = "ok"
  /\ UNCHANGED <<pc, logger, client, clientToken, config, sinkStore,
                 cachedTokens, readErr, idx, renewLog, exchLog, sinks, ctx,
                 deadlineElapsed, OutputCh, token, ahState, ssToken, ssWritten,
                 ahSeen, ssSeen, result, retLine, hist, tk>>

SinkFail ==
  /\ ssState = "writing"
  /\ ssWritten < Len(sinks)
  /\ ssState' = "exited"
  /\ ssOutcome' = "error"
  /\ UNCHANGED <<pc, logger, client, clientToken, config, sinkStore,
                 cachedTokens, readErr, idx, renewLog, exchLog, sinks, ctx,
                 deadlineElapsed, OutputCh, token, ahState, ssToken, ssWritten,
                 ahSeen, ssSeen, result, retLine, hist, tk>>

SinkCancelled ==
  /\ ssState \in {"waiting", "writing"}
  /\ ctx = "done"
  /\ ssState' = "exited"
  /\ ssOutcome' = "cancelled"
  /\ UNCHANGED <<pc, logger, client, clientToken, config, sinkStore,
                 cachedTokens, readErr, idx, renewLog, exchLog, sinks, ctx,
                 deadlineElapsed, OutputCh, token, ahState, ssToken, ssWritten,
                 ahSeen, ssSeen, result, retLine, hist, tk>>

\* ----------------- the deadline of context.WithTimeout (line 190) elapses
Deadline ==
  /\ ctx = "live"
  /\ ctx' = "done"
  /\ deadlineElapsed' = TRUE
  /\ hist' = [hist EXCEPT !.dlLogin = (hist.loginAttempts > 0),
                          !.dlPersisted = (ssOutcome = "ok")]
  /\ UNCHANGED <<pc, logger, client, clientToken, config, sinkStore,
                 cachedTokens, readErr, idx, renewLog, exchLog, sinks,
                 OutputCh, token, ahState, ssState, ssToken, ssWritten,
                 ssOutcome, ahSeen, ssSeen, result, retLine, tk>>

\* ---------------------------------------------------------- specification
Orchestrator ==
  \/ GetLogger \/ LoadConfig \/ NewClient \/ GetCachedTokens
  \/ RenewTokenAsSelf \/ UseCachedToken \/ ClearToken
  \/ BuildSinks \/ BuildMethod \/ StartTasks
  \/ LoginTimeout \/ LoginToken \/ TeardownAuth \/ TeardownSink
  \/ Handoff \/ PersistTimeout \/ PersistDone \/ Cancel \/ WaitAuth
  \/ FinalExchange

LoginTask == AuthSucceed \/ AuthFail \/ AuthExit \/ AuthCancelled

SinkTask == SinkWrite \/ SinkFinish \/ SinkFail \/ SinkCancelled

Next == Orchestrator \/ LoginTask \/ SinkTask \/ Deadline

Spec == Init /\ [][Next]_vars

\* every process keeps being scheduled and the timer of the context fires
FairSpec ==
  /\ Spec
  /\ WF_vars(Orchestrator)
  /\ WF_vars(LoginTask)
  /\ WF_vars(SinkTask)
  /\ WF_vars(Deadline)

TypeOK ==
  /\ pc \in {"start", "panicked", "loadconfig", "client", "cache", "renew",
              "use", "clear", "buildsinks", "buildmethod", "starttasks",
              "waitlogin", "teardown_ah", "teardown_ss", "handoff",
              "waitpersist", "cancel", "waitauth", "final", "done"}
  /\ ctx \in {"none", "live", "done"}
  /\ ahState \in {"notstarted", "running", "holding", "exited"}
  /\ ssState \in {"notstarted", "waiting", "writing", "exited"}
  /\ Len(OutputCh) <= 1

\* ===================================================================
\* Token cache record (vault-login/cache/token.go)
\* ===================================================================
GracePeriodSeconds == 600

\* how many seconds past the latest expiration the clock runs
MaxLate == 3

ExpirationInputs == {GracePeriodSeconds + 2, GracePeriodSeconds + 3}

MaxNow == GracePeriodSeconds + 3 + MaxLate

\* CachedToken records read from a sink (AuthMethod plays no role)
CachedTokenInputs ==
  [Token : {"t1"}, Expiration : ExpirationInputs, Renewable : BOOLEAN]

\* package time, in whole seconds
Unix(sec) == sec

After(t, u) == t > u

Before(t, u) == t < u

Add(t, d) == t + d

\* variant: a token counts as expired from the instant of its expiration on
Expired_AtOrAfter(t, now) == ~Before(now, Unix(t.Expiration))

\* func (t *CachedToken) Expired() bool, with now = time.Now()
Expired(t, now) == After(now, Unix(t.Expiration))

\* variant: the start of the window is included
EligibleForRenewal_Closed(t, now) ==
  LET expiration == Unix(t.Expiration)
      windowStart == Add(expiration, -1 * GracePeriodSeconds)
  IN  t.Renewable /\ Before(now, expiration) /\ ~Before(now, windowStart)

\* variant: the end of the window is not checked
EligibleForRenewal_NoEnd(t, now) ==
  LET expiration == Unix(t.Expiration)
      windowStart == Add(expiration, -1 * GracePeriodSeconds)
  IN  t.Renewable /\ After(now, windowStart)

\* func (t *CachedToken) EligibleForRenewal() bool, with now = time.Now()
EligibleForRenewal(t, now) ==
  LET expiration == Unix(t.Expiration)
      windowStart == Add(expiration, -1 * GracePeriodSeconds)
  IN  t.Renewable /\ Before(now, expiration) /\ After(now, windowStart)

TokenInit ==
  /\ HelperInit
  /\ tk \in [token : CachedTokenInputs, now : {0, GracePeriodSeconds},
              expCalled : {FALSE}, expRet : {FALSE},
              eligCalled : {FALSE}, eligRet : {FALSE}]

\* the wall clock advances by one second; earlier answers are forgotten
Tick ==
  /\ tk.now < MaxNow
  /\ tk' = [tk EXCEPT !.now = @ + 1,
                      !.expCalled = FALSE, !.expRet = FALSE,
                      !.eligCalled = FALSE, !.eligRet = FALSE]
  /\ UNCHANGED helperVars

\* t.Expired() is called
CallExpired ==
  /\ ~tk.expCalled
  /\ tk' = [tk EXCEPT !.expCalled = TRUE,
                      !.expRet = Expired(tk.token, tk.now)]
  /\ UNCHANGED helperVars

\* t.EligibleForRenewal() is called
CallEligibleForRenewal ==
  /\ ~tk.eligCalled
  /\ tk' = [tk EXCEPT !.eligCalled = TRUE,
                      !.eligRet = EligibleForRenewal(tk.token, tk.now)]
  /\ UNCHANGED helperVars

TokenNext == Tick \/ CallExpired \/ CallEligibleForRenewal

TokenSpec == TokenInit /\ [][TokenNext]_vars

\* ===================================================================
\* Properties
\* ===================================================================
Last(s) == s[Len(s)]

IsCache(e) == e.phase = "cache"

IsFresh(e) == e.phase = "fresh"

CacheExchanges == SelectSeq(exchLog, IsCache)

FreshExchanges == SelectSeq(exchLog, IsFresh)

Returned == pc = "done"

\* C1: every return of Get is either Success (the username and password of
\* a successful exchange, nil error) or the single credentials-not-found
\* error with empty username and password; a call in which no exchange
\* succeeded (any internal failure) returns exactly that NotFound value.
C1_TwoOutcomes ==
  Returned =>
    \/ /\ result.err = NilErr
       /\ Len(exchLog) > 0
       /\ Last(exchLog).ok
       /\ result = Success(GetCredentials(Last(exchLog).token))
    \/ /\ result = NotFound
       /\ \A i \in 1..Len(exchLog) : ~exchLog[i].ok

\* a deadline expiry in the second wait has been mapped to NotFound
C1_Witness ==
  /\ Returned
  /\ retLine = 216
  /\ result = NotFound

\* C6: on every return path taken after the two tasks were started, both
\* tasks have terminated and their completion signals have been received.
C6_TasksTerminatedAtReturn ==
  (Returned /\ hist.startCount > 0) =>
    /\ ahState = "exited"
    /\ ssState = "exited"
    /\ ahSeen
    /\ ssSeen

\* Get returned from the final exchange after both tasks ran
C6_Witness ==
  /\ Returned
  /\ hist.startCount > 0
  /\ retLine \in {230, 232}
  /\ hist.loginAttempts = 1

\* C7: when the exchange of the k-th cached token is the first to succeed,
\* Get has made exactly k exchange attempts, with tokens 1..k in sink order,
\* and returns the credentials read with token k.
C7_FirstSuccessWins ==
  (\E i \in 1..Len(CacheExchanges) : CacheExchanges[i].ok) =>
    LET k == Len(exchLog) IN
      /\ k <= Len(cachedTokens)
      /\ \A i \in 1..k :
           /\ exchLog[i].phase = "cache"
           /\ exchLog[i].pos = i
           /\ exchLog[i].token = cachedTokens[i]
           /\ exchLog[i].ok <=> (i = k)
      /\ Returned
      /\ result = Success(GetCredentials(cachedTokens[k]))

\* three cached tokens, the first exchange failed, the second succeeded
C7_Witness ==
  /\ Returned
  /\ Len(cachedTokens) = 3
  /\ Len(exchLog) = 2
  /\ ~exchLog[1].ok
  /\ exchLog[2].ok
  /\ cachedTokens[1] # cachedTokens[2]

\* C2: every call of Get eventually returns (or ends the process): under
\* fair scheduling of the orchestrator and the two tasks and a deadline that
\* elapses, Get never stays blocked forever.
C2_GetEventuallyReturns == <>(pc \in {"done", "panicked"})

\* C3: if the login produced a token that the orchestrator received, and the
\* deadline elapsed before the Sink-Write Task had finished persisting it
\* (the task was cancelled and some configured sink never received the
\* token), Get returns NotFound and performs no secret exchange with that
\* token.
C3_NoExchangeAfterPersistTimeout ==
  (/\ Returned
   /\ hist.loginWait = "token"
   /\ deadlineElapsed
   /\ ssOutcome = "cancelled"
   /\ \E j \in 1..Len(sinks) : sinkStore[sinks[j]] # token) =>
    /\ result = NotFound
    /\ Len(FreshExchanges) = 0

\* C4: every secret exchange of the fresh-login path uses a token that the
\* Sink-Write Task has successfully written to every configured sink; a
\* Sink-Write Task that ended with an error or by cancellation never leads
\* to an exchange.
C4_ExchangeOnlyAfterPersisted ==
  \A i \in 1..Len(exchLog) :
    exchLog[i].phase = "fresh" =>
      /\ ssOutcome = "ok"
      /\ \A j \in 1..Len(sinks) : sinkStore[sinks[j]] = exchLog[i].token

\* C5: if the deadline elapsed while the Login Task had not produced a token,
\* Get returns NotFound, no token was handed to the Sink-Write Task, no
\* secret exchange was performed with a fresh token and both completion
\* signals were received before the return.
C5_LoginTimeout ==
  (Returned /\ deadlineElapsed /\ ~hist.dlLogin) =>
    /\ result = NotFound
    /\ ~hist.handed
    /\ Len(FreshExchanges) = 0
    /\ ahSeen
    /\ ssSeen

\* the configuration passes every check of lines 96-125
ValidConfig == retLine \notin {99, 105, 110, 117, 124} /\ ConfigError(config) = 0

\* no sink of the configuration held a cached token when Get was called
NoCachedToken == \A i \in 1..Len(config.Sinks) : config.Sinks[i].cached = NoToken

\* the cached tokens were read and every one of them failed the exchange
AllCachedFailed ==
  /\ retLine # 131
  /\ Len(CacheExchanges) = Len(cachedTokens)
  /\ \A i \in 1..Len(CacheExchanges) : ~CacheExchanges[i].ok

CacheExhausted == ValidConfig /\ (NoCachedToken \/ AllCachedFailed)

\* C8 as stated: with a valid configuration and an exhausted cache, Get
\* returns without having started the Login Task only when the construction
\* of the sinks or of the login method failed.
C8_Original ==
  (Returned /\ CacheExhausted /\ hist.startCount = 0) =>
    /\ result = NotFound
    /\ retLine \in {169, 175}

\* C8 amended: with a valid configuration and an exhausted cache, Get either
\* starts the Login Task or returns NotFound because the construction of the
\* default client, of the sinks or of the login method failed.
C8_FreshLoginAttempted ==
  (Returned /\ CacheExhausted) =>
    \/ hist.startCount = 1
    \/ /\ result = NotFound
       /\ retLine \in {131, 169, 175}

\* two cached tokens failed the exchange and the tasks were started
C8_Witness ==
  /\ CacheExhausted
  /\ Len(cachedTokens) = 2
  /\ Len(CacheExchanges) = 2
  /\ hist.startCount = 1
  /\ ahState = "running"

\* C9: the two tasks are started together, at most once, and only after
\* every cached token has been renewed and has failed the exchange; no task
\* exists during the cache attempt, and a Get that succeeds with a cached
\* token has made no login attempt and no sink write.
C9_TasksOnlyAfterCacheExhausted ==
  /\ hist.startCount <= 1
  /\ (ahState = "notstarted") <=> (hist.startCount = 0)
  /\ (ssState = "notstarted") <=> (hist.startCount = 0)
  /\ hist.startCount = 1 =>
       /\ Len(renewLog) = Len(cachedTokens)
       /\ \A i \in 1..Len(renewLog) : renewLog[i].token = cachedTokens[i]
       /\ Len(CacheExchanges) = Len(cachedTokens)
       /\ \A i \in 1..Len(CacheExchanges) : ~CacheExchanges[i].ok
  /\ pc \in {"start", "loadconfig", "client", "cache", "renew", "use", "clear",
              "buildsinks", "buildmethod", "starttasks"} =>
       (ahState = "notstarted" /\ ssState = "notstarted")
  /\ (Returned /\ retLine = 160) =>
       /\ hist.startCount = 0
       /\ hist.loginAttempts = 0
       /\ hist.sinkWrites = 0
       /\ ctx = "none"

\* both tasks run after two cached tokens were renewed and failed
C9_Witness ==
  /\ Len(cachedTokens) = 2
  /\ hist.startCount = 1
  /\ ahState = "running"
  /\ ssState = "waiting"

\* C10: when Get returns after the Sink-Write Task's completion was received,
\* the fresh token is the active credential, exactly one secret exchange was
\* made with it after the cache attempt, and Get's outcome is the outcome of
\* that exchange; there was one login, no retry and no cached token used.
C10_FinalExchangeDecides ==
  (Returned /\ hist.persistWait = "done") =>
    /\ token = FreshToken
    /\ clientToken = token
    /\ Len(FreshExchanges) = 1
    /\ Last(exchLog).phase = "fresh"
    /\ Last(exchLog).token = token
    /\ Last(exchLog).ok => result = Success(GetCredentials(token))
    /\ ~Last(exchLog).ok => result = NotFound
    /\ hist.loginAttempts = 1
    /\ hist.startCount = 1

\* a fresh login after a failed cached token, persisted to a sink, exchanged
C10_Witness ==
  /\ Returned
  /\ hist.persistWait = "done"
  /\ ssOutcome = "ok"
  /\ Len(sinks) > 0
  /\ Len(CacheExchanges) > 0
  /\ result.err = NilErr

\* C13: a Get on a Helper without logger whose log file cannot be opened
\* falls back to stderr and goes on; it never ends in a panic.
C13_NoCrashOnLogFileFailure == pc # "panicked"

\* the cached tokens have been read (lines 137-141 were executed)
CacheRead ==
  /\ pc \notin {"start", "panicked", "loadconfig", "client", "cache"}
  /\ retLine \notin {99, 105, 110, 117, 124, 131}

\* every cached token that was read has been tried for the exchange, in order
AllCachedTried ==
  /\ Len(CacheExchanges) = Len(cachedTokens)
  /\ \A i \in 1..Len(CacheExchanges) :
       /\ CacheExchanges[i].pos = i
       /\ CacheExchanges[i].token = cachedTokens[i]

\* no task is running: none was started yet, or both have exited and the
\* orchestrator has received both completion signals
TasksQuiet ==
  \/ ahState = "notstarted" /\ ssState = "notstarted"
  \/ ahState = "exited" /\ ssState = "exited" /\ ahSeen /\ ssSeen

\* C14: the client's active credential changes, and the statements that set
\* or clear it (lines 152, 164, 224) execute, only in steps of the
\* orchestrator taken while no task is running.
C14_TokenMutatedOnlyWhenQuiet ==
  [][(clientToken' # clientToken \/ pc \in {"use", "clear", "final"}) =>
       (TasksQuiet /\ pc \in {"use", "clear", "final"})]_vars

\* a cached token was set, the credential cleared, the tasks ran and ended,
\* and the fresh token was set
C14_Witness ==
  /\ Returned
  /\ retLine \in {230, 232}
  /\ Len(CacheExchanges) > 0
  /\ clientToken = FreshToken
  /\ ahSeen
  /\ ssSeen

\* C15: once the cache attempt is exhausted the client's active credential
\* is cleared before the sinks and the method are built and before the tasks
\* start, and stays cleared until the fresh token is set: while the Login
\* Task is started and runs no cached token is set on the client.
C15_ClearedBeforeFreshLogin ==
  /\ pc \in {"buildsinks", "buildmethod", "starttasks", "waitlogin", "handoff",
              "waitpersist", "teardown_ah", "teardown_ss", "cancel",
              "waitauth", "final"} => clientToken = NoToken
  /\ (Returned /\ retLine \in {169, 175, 203, 216}) => clientToken = NoToken

\* the Login Task has just been started after two cached tokens failed
C15_Witness ==
  /\ pc = "waitlogin"
  /\ ahState = "running"
  /\ Len(CacheExchanges) = 2
  /\ clientToken = NoToken

\* C16: the renewals are made once per cached token, in sink order, and all
\* of them precede the first exchange; whatever the outcome of its renewal,
\* every cached token is tried for the exchange unless the exchange of an
\* earlier token succeeded.
C16_RenewAllThenExchange ==
  /\ Len(renewLog) <= Len(cachedTokens)
  /\ \A i \in 1..Len(renewLog) : renewLog[i].token = cachedTokens[i]
  /\ Len(exchLog) > 0 => Len(renewLog) = Len(cachedTokens)
  /\ \A i \in 1..Len(CacheExchanges) :
       /\ CacheExchanges[i].pos = i
       /\ CacheExchanges[i].token = cachedTokens[i]
  /\ (CacheRead /\ pc \notin {"renew", "use"}) =>
       \/ AllCachedTried
       \/ /\ Len(CacheExchanges) > 0
          /\ Last(CacheExchanges).ok

\* two tokens whose renewals failed were both tried; the second one succeeded
C16_Witness ==
  /\ Returned
  /\ retLine = 160
  /\ Len(renewLog) = 2
  /\ ~renewLog[1].ok
  /\ ~renewLog[2].ok
  /\ Len(exchLog) = 2

\* the configuration names a sink type or a method type that is not known
UnknownTag ==
  \/ config.MethodType \notin KnownMethods
  \/ \E i \in 1..Len(config.Sinks) : config.Sinks[i].Type # "file"

\* C17 as stated: an unknown type tag makes Get return NotFound, whatever
\* the cached tokens hold, and is found before any token is used.
C17_Original ==
  (Returned /\ ValidConfig /\ UnknownTag /\ retLine # 131) =>
    /\ result = NotFound
    /\ renewLog = << >>
    /\ exchLog = << >>

\* C17 amended: with an unknown type tag the tasks are never started; Get
\* returns the credentials of a cached token whose exchange succeeds, and
\* otherwise, after every cached token failed, NotFound from the construction
\* of the sinks or of the method.
C17_UnknownTagFoundAtConstruction ==
  (ValidConfig /\ UnknownTag) =>
    /\ hist.startCount = 0
    /\ Returned =>
         \/ retLine = 160 /\ result.err = NilErr
         \/ retLine = 131 /\ result = NotFound
         \/ /\ retLine \in {169, 175}
            /\ result = NotFound
            /\ AllCachedTried
            /\ \A i \in 1..Len(exchLog) : ~exchLog[i].ok

\* an unknown method type was reported by buildMethod after a cached token failed
C17_Witness ==
  /\ Returned
  /\ config.MethodType \notin KnownMethods
  /\ retLine = 175
  /\ Len(CacheExchanges) > 0
  /\ result = NotFound

\* C18: an error of the read of the cached tokens, or an empty result, never
\* ends Get: the tokens that were returned are renewed and tried in order,
\* and if none succeeds Get goes on to the fresh login.
C18_ReadErrorNotFatal ==
  (CacheRead /\ (readErr \/ cachedTokens = << >>)) =>
    /\ Returned => retLine \in {160, 169, 175, 203, 216, 230, 232}
    /\ pc \notin {"renew", "use"} =>
         \/ Returned /\ retLine = 160 /\ Last(CacheExchanges).ok
         \/ /\ AllCachedTried
            /\ Len(renewLog) = Len(cachedTokens)
            /\ pc \notin {"clear", "buildsinks", "buildmethod", "starttasks"} =>
                 (hist.startCount = 1 \/ retLine \in {169, 175})

\* the read reported an error and one token; it failed and a fresh login won
C18_Witness ==
  /\ Returned
  /\ readErr
  /\ Len(cachedTokens) = 1
  /\ Len(CacheExchanges) = 1
  /\ retLine = 232

\* C20 as stated: on Success the client's active credential is the token of
\* the successful exchange and no earlier exchange of the call failed with it.
C20_Original ==
  (Returned /\ result.err = NilErr) =>
    /\ clientToken = Last(exchLog).token
    /\ \A i \in 1..(Len(exchLog) - 1) : exchLog[i].token # clientToken

\* C20 amended: on Success the client's active credential is the token used
\* by the last exchange, the only successful one, whose credentials Get
\* returns (the winning cached token, or the fresh token); an earlier failed
\* exchange used the same token only when several sinks cached that token.
C20_ActiveCredentialIsWinner ==
  (Returned /\ result.err = NilErr) =>
    /\ Last(exchLog).ok
    /\ \A i \in 1..(Len(exchLog) - 1) : ~exchLog[i].ok
    /\ clientToken = Last(exchLog).token
    /\ result = Success(GetCredentials(clientToken))
    /\ retLine = 160 => clientToken = cachedTokens[Len(exchLog)]
    /\ retLine = 232 => clientToken = FreshToken
    /\ \A i \in 1..(Len(exchLog) - 1) :
         exchLog[i].token = clientToken =>
           /\ retLine = 160
           /\ cachedTokens[i] = cachedTokens[Len(exchLog)]

\* Success with the second cached token after a different first one failed
C20_Witness ==
  /\ Returned
  /\ retLine = 160
  /\ Len(exchLog) = 2
  /\ exchLog[1].token # exchLog[2].token
  /\ clientToken = exchLog[2].token

\* C11 as stated: Expired() is true exactly when now >= expiration.
C11_Original ==
  tk.expCalled => (tk.expRet <=> tk.now >= tk.token.Expiration)

\* C11 amended: Expired() is true exactly when now is strictly after the
\* expiration; it is false before it and at the instant now = expiration.
C11_ExpiredStrictlyAfter ==
  tk.expCalled => (tk.expRet <=> tk.now > tk.token.Expiration)

\* Expired() was called at the instant of the expiration and returned false
C11_Witness ==
  /\ tk.expCalled
  /\ tk.now = tk.token.Expiration
  /\ ~tk.expRet

\* C12 as stated: EligibleForRenewal() is true exactly when the token is
\* renewable and expiration - 600 <= now < expiration.
C12_Original ==
  tk.eligCalled =>
    (tk.eligRet <=> /\ tk.token.Renewable
                    /\ tk.token.Expiration - 600 <= tk.now
                    /\ tk.now < tk.token.Expiration)

\* C12 amended: EligibleForRenewal() is true exactly when the token is
\* renewable and expiration - 600 < now < expiration (both ends excluded);
\* it is false whenever the token is not renewable.
C12_EligibleInOpenWindow ==
  tk.eligCalled =>
    (tk.eligRet <=> /\ tk.token.Renewable
                    /\ tk.token.Expiration - 600 < tk.now
                    /\ tk.now < tk.token.Expiration)

\* a renewable token evaluated at the first instant of the grace period
C12_Witness ==
  /\ tk.eligCalled
  /\ tk.token.Renewable
  /\ tk.now = tk.token.Expiration - 600
  /\ ~tk.eligRet

\* C19: evaluated at the same time, Expired() and EligibleForRenewal() are
\* never both true, also for a token whose renewable flag is set.
C19_NeverExpiredAndEligible ==
  (tk.expCalled /\ tk.eligCalled) => ~(tk.expRet /\ tk.eligRet)

\* an expired token marked renewable is not eligible
C19_Witness ==
  /\ tk.expCalled
  /\ tk.eligCalled
  /\ tk.token.Renewable
  /\ tk.expRet
  /\ ~tk.eligRet

====
